---- MODULE Spec2Model ----
(***************************************************************************)
(* Model of bot_render.py: telemetry ingestion (recibir_datos), the plant  *)
(* registry and history tables (plantas, historial, config_alertas), the   *)
(* threshold evaluator and the alert dispatcher (SistemaAlertas), and the  *)
(* operator commands that write the same tables.                           *)
(*                                                                         *)
(* Time is counted in minutes of the receiver's clock (datetime.now()),     *)
(* which the model advances PasoReloj minutes at a time.  A stored         *)
(* timestamp is the ISO-8601 text of a clock reading; a text is modelled   *)
(* as the sequence of its fixed-width fields: <<day>> for "YYYY-MM-DD",    *)
(* <<day, second of the day>> for "YYYY-MM-DDTHH:MM:SS" and                *)
(* <<day, second of the day, microsecond>> for the form with ".ffffff".    *)
(* The eventos table is a write-only log that no code path reads; it is    *)
(* left out of the state.                                                  *)
(***************************************************************************)
EXTENDS Integers, Sequences, FiniteSets, TLC

VARIABLES
    plantas,         \* table plantas: planta_id -> row
    historial,       \* table historial, in rowid (insertion) order
    config_alertas,  \* table config_alertas: planta_id -> row
    ultima_alerta,   \* SistemaAlertas.ultima_alerta: planta_id -> datetime
    reloj,           \* datetime.now(), in minutes
    llamadas,        \* every call of actualizar_planta_db so far, in call order
    ultimo           \* locals and outcome of the handler that ran last

vars == <<plantas, historial, config_alertas, ultima_alerta, reloj, llamadas, ultimo>>

----------------------------------------------------------------------------
(* Bounds of the model *)

MaxLlamadas == 3
MaxTics == 1
PasoReloj == 5
MaxFilas == 3

(* Program constants *)

PUREZA_MINIMA == 93
PRESION_MAXIMA == 7
TEMPERATURA_MAXIMA == 45
INTERVALO_ALERTA_MIN == 5

Ids == {"p1", "p2"}

\* cargar_usuarios(): the role lists of the users file.
USUARIOS == [admins |-> <<1>>, operadores |-> <<>>, lectores |-> <<2>>]

Vacio == [x \in {} |-> x]

\* dict.get(k, d)
Get(d, k, def) == IF k \in DOMAIN d THEN d[k] ELSE def

\* `1 if datos.get("alarma") else 0`
Alarma01(datos) == IF Get(datos, "alarma", FALSE) THEN 1 ELSE 0

----------------------------------------------------------------------------
(* Inputs *)

\* Telemetry payloads (JSON objects without the planta_id key).  The
\* timestamp key is the sender's clock reading.
CargaCompleta ==
    [nombre |-> "Planta Norte", presion_bar |-> 5, temperatura_c |-> 40,
     pureza_pct |-> 95, flujo_nm3h |-> 10, horas_operacion |-> 100,
     modo |-> "Producción", alarma |-> FALSE, mensaje_alarma |-> "",
     timestamp |-> <<0, 0>>]

CargaPurezaBaja ==
    [pureza_pct |-> 85, alarma |-> FALSE, timestamp |-> <<0, 1>>]

CargaAlarma ==
    [presion_bar |-> 8, temperatura_c |-> 50, pureza_pct |-> 80,
     modo |-> "Producción", alarma |-> TRUE,
     mensaje_alarma |-> "Falla compresor", timestamp |-> <<0, 2>>]

Cargas == {CargaCompleta, CargaPurezaBaja, CargaAlarma}

SinId == "<sin planta_id>"

\* The planta_id of a body whose planta_id key holds a JSON null (None).
IdNulo == "<null>"

\* The bodies posted: every payload for p1, the alarm payload for p2, and a
\* body that lacks the planta_id key.
Entradas ==
    ({"p1"} \X Cargas) \cup {<<"p2", CargaAlarma>>, <<SinId, CargaCompleta>>}

\* The plant the operator commands and callbacks are given for.
Comandadas == {"p1"}

\* The JSON body of POST /api/datos.
Cuerpo(planta_id, carga) ==
    IF planta_id = SinId THEN carga ELSE [planta_id |-> planta_id] @@ carga

Intervalos == {10}

----------------------------------------------------------------------------
(* Tables *)

\* SELECT * FROM plantas
obtener_plantas_db_todas(pl) == pl

\* obtener_plantas_db: SELECT * FROM plantas WHERE activa = 1
obtener_plantas_db(pl) ==
    [p \in {q \in DOMAIN pl : pl[q].activa = 1} |-> pl[p]]

\* UPDATE plantas SET horas_operacion = ? without COALESCE
FilaActualizadaSinCoalesce(fila, datos, timestamp) ==
    [fila EXCEPT
        !.nombre = Get(datos, "nombre", fila.nombre),
        !.presion_bar = Get(datos, "presion_bar", 0),
        !.temperatura_c = Get(datos, "temperatura_c", 0),
        !.pureza_pct = Get(datos, "pureza_pct", 0),
        !.flujo_nm3h = Get(datos, "flujo_nm3h", 0),
        !.horas_operacion = Get(datos, "horas_operacion", 0),
        !.modo = Get(datos, "modo", "Desconocido"),
        !.alarma = Alarma01(datos),
        !.mensaje_alarma = Get(datos, "mensaje_alarma", ""),
        !.ultima_actualizacion = timestamp]

\* UPDATE plantas SET ..., activa = 1 WHERE id = ?
FilaActualizadaReactivando(fila, datos, timestamp) ==
    [fila EXCEPT
        !.nombre = Get(datos, "nombre", fila.nombre),
        !.presion_bar = Get(datos, "presion_bar", 0),
        !.temperatura_c = Get(datos, "temperatura_c", 0),
        !.pureza_pct = Get(datos, "pureza_pct", 0),
        !.flujo_nm3h = Get(datos, "flujo_nm3h", 0),
        !.horas_operacion = Get(datos, "horas_operacion", fila.horas_operacion),
        !.modo = Get(datos, "modo", "Desconocido"),
        !.alarma = Alarma01(datos),
        !.mensaje_alarma = Get(datos, "mensaje_alarma", ""),
        !.ultima_actualizacion = timestamp,
        !.activa = 1]

\* UPDATE plantas SET ... WHERE id = ?
FilaActualizada(fila, datos, timestamp) ==
    [fila EXCEPT
        !.nombre = Get(datos, "nombre", fila.nombre),
        !.presion_bar = Get(datos, "presion_bar", 0),
        !.temperatura_c = Get(datos, "temperatura_c", 0),
        !.pureza_pct = Get(datos, "pureza_pct", 0),
        !.flujo_nm3h = Get(datos, "flujo_nm3h", 0),
        !.horas_operacion = Get(datos, "horas_operacion", fila.horas_operacion),
        !.modo = Get(datos, "modo", "Desconocido"),
        !.alarma = Alarma01(datos),
        !.mensaje_alarma = Get(datos, "mensaje_alarma", ""),
        !.ultima_actualizacion = timestamp]

\* f"Planta {planta_id}"
NombrePorDefecto(planta_id) ==
    IF planta_id = IdNulo THEN "Planta None" ELSE "Planta " \o planta_id

\* INSERT INTO plantas (...) VALUES (..., 1)
FilaNueva(planta_id, datos, timestamp) ==
    [nombre |-> Get(datos, "nombre", NombrePorDefecto(planta_id)),
     presion_bar |-> Get(datos, "presion_bar", 0),
     temperatura_c |-> Get(datos, "temperatura_c", 0),
     pureza_pct |-> Get(datos, "pureza_pct", 0),
     flujo_nm3h |-> Get(datos, "flujo_nm3h", 0),
     horas_operacion |-> Get(datos, "horas_operacion", 0),
     modo |-> Get(datos, "modo", "Desconocido"),
     alarma |-> Alarma01(datos),
     mensaje_alarma |-> Get(datos, "mensaje_alarma", ""),
     ultima_actualizacion |-> timestamp,
     activa |-> 1]

\* INSERT INTO historial (...)
Muestra(planta_id, datos, timestamp) ==
    [planta_id |-> planta_id,
     timestamp |-> timestamp,
     presion_bar |-> Get(datos, "presion_bar", 0),
     temperatura_c |-> Get(datos, "temperatura_c", 0),
     pureza_pct |-> Get(datos, "pureza_pct", 0),
     flujo_nm3h |-> Get(datos, "flujo_nm3h", 0),
     modo |-> Get(datos, "modo", ""),
     alarma |-> Alarma01(datos),
     mensaje_alarma |-> Get(datos, "mensaje_alarma", ""),
     horas_operacion |-> Get(datos, "horas_operacion", 0)]

\* The datetime of a clock reading in minutes: day, second of the day and
\* microsecond.
FechaHora(minutos) ==
    [dia |-> minutos \div 1440, seg |-> (minutos % 1440) * 60, micro |-> 0]

\* datetime.isoformat(): "YYYY-MM-DDTHH:MM:SS", followed by ".ffffff" when the
\* microsecond is not 0.
isoformat(d) ==
    IF d.micro = 0 THEN <<d.dia, d.seg>> ELSE <<d.dia, d.seg, d.micro>>

\* timestamp = datos.get("timestamp", datetime.now().isoformat())
MarcaDeTiempoDelEmisor(datos, ahora) ==
    Get(datos, "timestamp", isoformat(FechaHora(ahora)))

\* timestamp = datetime.now().isoformat()
MarcaDeTiempo(datos, ahora) == isoformat(FechaHora(ahora))

\* A connection that is dropped with its transaction open commits the
\* statements executed so far
cerrar_confirmando(confirmadas, pendientes) == pendientes

\* A connection that is dropped with its transaction open (an exception left
\* the function before conn.commit()): sqlite rolls the transaction back and
\* the file keeps the tables as they were committed.
cerrar_sin_commit(confirmadas, pendientes) == confirmadas

\* The statements of actualizar_planta_db after `SELECT id FROM plantas WHERE
\* id = ?` has told whether the row exists: the UPDATE or INSERT of plantas,
\* the INSERT into historial and the commit, on the tables pl and hi that the
\* file holds when the first of them takes the write lock.  The INSERT of a
\* row whose id is in the table raises IntegrityError (PRIMARY KEY); a NULL id
\* is admitted by `id TEXT PRIMARY KEY` and refused by historial's `planta_id
\* TEXT NOT NULL`.
Escribir(pl, hi, planta_id, datos, ahora, existe) ==
    LET timestamp == MarcaDeTiempo(datos, ahora)
        confirmadas == [plantas |-> pl, historial |-> hi]
    IN IF ~existe /\ planta_id \in DOMAIN pl
       THEN cerrar_sin_commit(confirmadas, confirmadas)
            @@ [excepcion |-> "IntegrityError"]
       ELSE LET fila == IF existe
                        THEN FilaActualizada(pl[planta_id], datos, timestamp)
                        ELSE FilaNueva(planta_id, datos, timestamp)
                tras_plantas == [plantas |-> (planta_id :> fila) @@ pl,
                                 historial |-> hi]
                tras_historial ==
                    [plantas |-> tras_plantas.plantas,
                     historial |-> Append(hi, Muestra(planta_id, datos, timestamp))]
            IN IF planta_id = IdNulo
               THEN cerrar_sin_commit(confirmadas, tras_plantas)
                    @@ [excepcion |-> "IntegrityError"]
               ELSE tras_historial @@ [excepcion |-> ""]

\* actualizar_planta_db: the new contents of plantas and historial, and the
\* exception that left the function, if any.  `WHERE id = NULL` matches no row.
actualizar_planta_db(pl, hi, planta_id, datos, ahora) ==
    Escribir(pl, hi, planta_id, datos, ahora,
             planta_id # IdNulo /\ planta_id \in DOMAIN pl)

\* agregar_planta_db: INSERT INTO plantas with the schema defaults.
FilaRegistrada(nombre, ahora) ==
    [nombre |-> nombre,
     presion_bar |-> 0, temperatura_c |-> 0, pureza_pct |-> 0,
     flujo_nm3h |-> 0, horas_operacion |-> 0,
     modo |-> "Desconocido", alarma |-> 0, mensaje_alarma |-> "",
     ultima_actualizacion |-> ahora,
     activa |-> 1]

ConfigRegistrada ==
    [intervalo_alerta_min |-> INTERVALO_ALERTA_MIN, alertas_activas |-> 1,
     pureza_minima |-> PUREZA_MINIMA, presion_maxima |-> PRESION_MAXIMA,
     temperatura_maxima |-> TEMPERATURA_MAXIMA]

\* The column defaults of CREATE TABLE config_alertas.
ConfigPorDefecto ==
    [intervalo_alerta_min |-> 5, alertas_activas |-> 1,
     pureza_minima |-> 93, presion_maxima |-> 7, temperatura_maxima |-> 45]

\* agregar_planta_db: a primary-key or UNIQUE violation raises IntegrityError,
\* the uncommitted inserts are rolled back and False is returned.
agregar_planta_db(pl, cfg, planta_id, nombre, ahora) ==
    IF planta_id \in DOMAIN pl \/ planta_id \in DOMAIN cfg
    THEN [ok |-> FALSE, plantas |-> pl, config_alertas |-> cfg]
    ELSE [ok |-> TRUE,
          plantas |-> (planta_id :>
                          FilaRegistrada(nombre, isoformat(FechaHora(ahora))))
                      @@ pl,
          config_alertas |-> (planta_id :> ConfigRegistrada) @@ cfg]

\* A hard delete: the plant's rows are removed from plantas and historial.
eliminar_planta_db_borrando(pl, hi, planta_id) ==
    IF planta_id \in DOMAIN pl
    THEN [ok |-> TRUE,
          plantas |-> [p \in DOMAIN pl \ {planta_id} |-> pl[p]],
          historial |-> SelectSeq(hi, LAMBDA m : m.planta_id # planta_id)]
    ELSE [ok |-> FALSE, plantas |-> pl, historial |-> hi]

\* eliminar_planta_db: UPDATE plantas SET activa = 0 WHERE id = ?; rowcount is
\* the number of rows the WHERE clause matches.
eliminar_planta_db(pl, hi, planta_id) ==
    IF planta_id \in DOMAIN pl
    THEN [ok |-> TRUE,
          plantas |-> [pl EXCEPT ![planta_id].activa = 0],
          historial |-> hi]
    ELSE [ok |-> FALSE, plantas |-> pl, historial |-> hi]

\* ORDER BY id DESC: newest first
OrdenarDescendente(s) ==
    [i \in 1..Len(s) |-> s[Len(s) + 1 - i]]

\* a <= b for two TEXT values: the first field that differs decides, and a
\* text that is a prefix of the other is the smaller one.
TextoMenorIgual(a, b) ==
    \/ a = b
    \/ \E i \in 1..Len(a) :
           /\ \A j \in 1..(i - 1) : a[j] = b[j]
           /\ i <= Len(b)
           /\ a[i] < b[i]
    \/ /\ Len(a) < Len(b)
       /\ \A j \in 1..Len(a) : a[j] = b[j]

\* Stable sort by timestamp: ORDER BY timestamp ASC over the rows in rowid order.
InsertarOrdenado(s, x) ==
    LET antes == SelectSeq(s, LAMBDA y : TextoMenorIgual(y.timestamp, x.timestamp))
        despues == SelectSeq(s, LAMBDA y : ~TextoMenorIgual(y.timestamp, x.timestamp))
    IN antes \o <<x>> \o despues

RECURSIVE OrdenarPorTimestamp(_)
OrdenarPorTimestamp(s) ==
    IF s = <<>> THEN <<>>
    ELSE InsertarOrdenado(OrdenarPorTimestamp(SubSeq(s, 1, Len(s) - 1)), s[Len(s)])

\* `if len(desde) == 10: desde += "T00:00:00"`: a text that is a date only
\* gets the given time of day appended.
ConHora(texto, seg) == IF Len(texto) = 1 THEN Append(texto, seg) ELSE texto

\* obtener_historial_db with `timestamp < ?` for the upper bound
obtener_historial_db_excluyente(hi, planta_id, desde, hasta, limite) ==
    LET hayDesde == desde # <<>> /\ desde[1] # <<>>
        hayHasta == hasta # <<>> /\ hasta[1] # <<>>
        filas == SelectSeq(hi, LAMBDA m :
                     /\ m.planta_id = planta_id
                     /\ (hayDesde =>
                            TextoMenorIgual(ConHora(desde[1], 0), m.timestamp))
                     /\ (hayHasta =>
                            ~TextoMenorIgual(ConHora(hasta[1], 86399), m.timestamp)))
        ordenadas == OrdenarPorTimestamp(filas)
    IN IF limite # <<>> /\ limite[1] # 0 /\ limite[1] < Len(ordenadas)
       THEN SubSeq(ordenadas, 1, limite[1])
       ELSE ordenadas

\* obtener_historial_db.  desde, hasta and limite are <<>> (None) or <<v>>;
\* the date-only upper bound gets "T23:59:59" appended.
obtener_historial_db(hi, planta_id, desde, hasta, limite) ==
    LET hayDesde == desde # <<>> /\ desde[1] # <<>>
        hayHasta == hasta # <<>> /\ hasta[1] # <<>>
        filas == SelectSeq(hi, LAMBDA m :
                     /\ m.planta_id = planta_id
                     /\ (hayDesde =>
                            TextoMenorIgual(ConHora(desde[1], 0), m.timestamp))
                     /\ (hayHasta =>
                            TextoMenorIgual(m.timestamp, ConHora(hasta[1], 86399))))
        ordenadas == OrdenarPorTimestamp(filas)
    IN IF limite # <<>> /\ limite[1] # 0 /\ limite[1] < Len(ordenadas)
       THEN SubSeq(ordenadas, 1, limite[1])
       ELSE ordenadas

----------------------------------------------------------------------------
(* SistemaAlertas *)

\* SistemaAlertas.obtener_config
obtener_config(cfg, planta_id) ==
    IF planta_id \in DOMAIN cfg
    THEN cfg[planta_id]
    ELSE [intervalo_alerta_min |-> INTERVALO_ALERTA_MIN, alertas_activas |-> 1,
          pureza_minima |-> PUREZA_MINIMA, presion_maxima |-> PRESION_MAXIMA,
          temperatura_maxima |-> TEMPERATURA_MAXIMA]

\* SistemaAlertas.puede_enviar
puede_enviar(cfg, ua, planta_id, ahora) ==
    LET intervalo == obtener_config(cfg, planta_id).intervalo_alerta_min
    IN IF planta_id \notin DOMAIN ua
       THEN TRUE
       ELSE ahora - ua[planta_id] >= intervalo

\* verificar_umbrales with `pureza <= config["pureza_minima"]`
verificar_umbrales_no_estricto(cfg, planta_id, datos) ==
    LET config == obtener_config(cfg, planta_id)
        pureza == Get(datos, "pureza_pct", 100)
        presion == Get(datos, "presion_bar", 0)
        temp == Get(datos, "temperatura_c", 0)
    IN (IF pureza <= config.pureza_minima THEN <<"Pureza baja">> ELSE <<>>)
       \o (IF presion > config.presion_maxima THEN <<"Presión alta">> ELSE <<>>)
       \o (IF temp > config.temperatura_maxima THEN <<"Temperatura alta">> ELSE <<>>)

\* SistemaAlertas.verificar_umbrales
verificar_umbrales(cfg, planta_id, datos) ==
    LET config == obtener_config(cfg, planta_id)
        pureza == Get(datos, "pureza_pct", 100)
        presion == Get(datos, "presion_bar", 0)
        temp == Get(datos, "temperatura_c", 0)
    IN (IF pureza < config.pureza_minima THEN <<"Pureza baja">> ELSE <<>>)
       \o (IF presion > config.presion_maxima THEN <<"Presión alta">> ELSE <<>>)
       \o (IF temp > config.temperatura_maxima THEN <<"Temperatura alta">> ELSE <<>>)

\* usuarios.get("admins") + usuarios.get("operadores") + usuarios.get("lectores")
Todos == USUARIOS.admins \o USUARIOS.operadores \o USUARIOS.lectores

Destinatarios == {Todos[i] : i \in 1..Len(Todos)}

\* The index of the first send_message that raises, or Len(todos) + 1.
PrimerFallo(todos, resultados) ==
    LET malos == {i \in 1..Len(todos) : ~resultados[todos[i]]}
    IN IF malos = {} THEN Len(todos) + 1
       ELSE CHOOSE i \in malos : \A j \in malos : i <= j

\* The loop with `break` in the except clause.
EntregarHastaFallo(todos, resultados) ==
    LET n == PrimerFallo(todos, resultados)
    IN [intentos |-> [i \in 1..(IF n > Len(todos) THEN Len(todos) ELSE n) |->
                         [usuario |-> todos[i], ok |-> resultados[todos[i]]]],
        excepcion |-> FALSE]

\* The loop without try/except: the first failure leaves the coroutine.
EntregarSinTry(todos, resultados) ==
    LET n == PrimerFallo(todos, resultados)
    IN [intentos |-> [i \in 1..(IF n > Len(todos) THEN Len(todos) ELSE n) |->
                         [usuario |-> todos[i], ok |-> resultados[todos[i]]]],
        excepcion |-> n <= Len(todos)]

\* The fan-out loop of enviar_alerta.  resultados[u] tells whether
\* send_message to u returns (TRUE) or raises (FALSE).  An exception is
\* caught and logged inside the loop body.
Entregar(todos, resultados) ==
    [intentos |-> [i \in 1..Len(todos) |->
                      [usuario |-> todos[i], ok |-> resultados[todos[i]]]],
     excepcion |-> FALSE]

\* enviar_alerta without the alertas_activas test
enviar_alerta_sin_config(cfg, ua, planta_id, resultados, ahora) ==
    IF ~puede_enviar(cfg, ua, planta_id, ahora)
    THEN [entregas |-> <<>>, ultima_alerta |-> ua, enviado |-> FALSE,
          excepcion |-> FALSE]
    ELSE LET r == Entregar(Todos, resultados)
         IN [entregas |-> r.intentos,
             ultima_alerta |-> (planta_id :> ahora) @@ ua,
             enviado |-> TRUE,
             excepcion |-> FALSE]

\* SistemaAlertas.enviar_alerta
enviar_alerta(cfg, ua, planta_id, resultados, ahora) ==
    IF ~puede_enviar(cfg, ua, planta_id, ahora)
    THEN [entregas |-> <<>>, ultima_alerta |-> ua, enviado |-> FALSE,
          excepcion |-> FALSE]
    ELSE IF obtener_config(cfg, planta_id).alertas_activas = 0
    THEN [entregas |-> <<>>, ultima_alerta |-> ua, enviado |-> FALSE,
          excepcion |-> FALSE]
    ELSE LET r == Entregar(Todos, resultados)
         IN [entregas |-> r.intentos,
             ultima_alerta |-> IF r.excepcion THEN ua
                               ELSE (planta_id :> ahora) @@ ua,
             enviado |-> ~r.excepcion,
             excepcion |-> r.excepcion]

----------------------------------------------------------------------------
(* Statistics.  A number that the code rounds to two decimals is kept in     *)
(* hundredths: 9250 is 92.5.                                                  *)

\* round(num / den, 2), in hundredths; a tie goes to the even neighbour.
Redondear2(num, den) ==
    LET q == (100 * num) \div den
        r == (100 * num) % den
    IN IF 2 * r < den THEN q
       ELSE IF 2 * r > den THEN q + 1
       ELSE IF q % 2 = 0 THEN q ELSE q + 1

RECURSIVE Suma(_)
Suma(s) == IF s = <<>> THEN 0 ELSE s[1] + Suma(Tail(s))

Cuadrados(s) == [i \in 1..Len(s) |-> s[i] * s[i]]

Minimo(s) == CHOOSE x \in {s[i] : i \in 1..Len(s)} : \A j \in 1..Len(s) : x <= s[j]

Maximo(s) == CHOOSE x \in {s[i] : i \in 1..Len(s)} : \A j \in 1..Len(s) : x >= s[j]

\* sorted(values)
RECURSIVE Ordenados(_)
Ordenados(s) ==
    IF s = <<>> THEN <<>>
    ELSE LET r == Ordenados(SubSeq(s, 1, Len(s) - 1))
             x == s[Len(s)]
         IN SelectSeq(r, LAMBDA y : y <= x) \o <<x>> \o SelectSeq(r, LAMBDA y : y > x)

\* round(median(values), 2)
Mediana(s) ==
    LET o == Ordenados(s)
        n == Len(s)
    IN IF n % 2 = 1 THEN 100 * o[(n + 1) \div 2]
       ELSE Redondear2(o[n \div 2] + o[n \div 2 + 1], 2)

\* The largest r in lo..hi-1 with r = 0 or (r - 1/2)^2 <= 10000 * num / den:
\* the square root of num / den rounded to hundredths.
RECURSIVE RaizRedondeada(_, _, _, _)
RaizRedondeada(lo, hi, num, den) ==
    IF hi <= lo + 1 THEN lo
    ELSE LET m == (lo + hi) \div 2
         IN IF (2 * m - 1) * (2 * m - 1) * den <= 40000 * num
            THEN RaizRedondeada(m, hi, num, den)
            ELSE RaizRedondeada(lo, m, num, den)

\* round(pstdev(values), 2): the divisor is n
DesviacionPoblacional(s) ==
    LET n == Len(s)
        num == n * Suma(Cuadrados(s)) - Suma(s) * Suma(s)
    IN RaizRedondeada(0, 100 * (Maximo(s) - Minimo(s)) + 1, num, n * n)

\* round(stdev(values), 2) for two values or more: the divisor is n - 1
DesviacionEstandar(s) ==
    LET n == Len(s)
        num == n * Suma(Cuadrados(s)) - Suma(s) * Suma(s)
    IN RaizRedondeada(0, 100 * (Maximo(s) - Minimo(s)) + 1, num, n * (n - 1))

\* Python's None, JSON null and SQL NULL where a number is expected: a value
\* that no metric takes.
None == -1

\* safe_stats
safe_stats(valores) ==
    LET values == SelectSeq(valores, LAMBDA v : v # None)
    IN IF values = <<>>
       THEN [min |-> 0, max |-> 0, avg |-> 0, median |-> 0, std |-> 0, count |-> 0]
       ELSE [min |-> 100 * Minimo(values),
             max |-> 100 * Maximo(values),
             avg |-> Redondear2(Suma(values), Len(values)),
             median |-> Mediana(values),
             std |-> IF Len(values) > 1 THEN DesviacionEstandar(values) ELSE 0,
             count |-> Len(values)]

\* `p >= config["pureza_minima"]` with the plant's configuration
PurezaSegunConfig(p) == p >= obtener_config(config_alertas, "p1").pureza_minima

\* `p >= 93`
PurezaAceptable(p) == p >= 93

Columna(datos, k) == [i \in 1..Len(datos) |-> datos[i][k]]

\* calcular_estadisticas on a slice that is not empty.  `p >= 93` raises
\* TypeError when a purity is None.
EstadisticasDe(datos) ==
    LET n == Len(datos)
        pureza == Columna(datos, "pureza_pct")
        alarmas == Cardinality({i \in 1..n : datos[i].alarma # 0})
        nombres == {datos[i].modo : i \in 1..n}
        modos == [m \in nombres |-> Cardinality({i \in 1..n : datos[i].modo = m})]
        tiempo_produccion == Get(modos, "Producción", 0)
        pureza_aceptable == Cardinality({i \in 1..n : PurezaAceptable(pureza[i])})
    IN IF \E i \in 1..n : pureza[i] = None
       THEN [excepcion |-> "TypeError"]
       ELSE [periodo |-> [inicio |-> datos[1].timestamp,
                          fin |-> datos[n].timestamp,
                          registros |-> n],
             pureza |-> safe_stats(pureza),
             flujo |-> safe_stats(Columna(datos, "flujo_nm3h")),
             presion |-> safe_stats(Columna(datos, "presion_bar")),
             temperatura |-> safe_stats(Columna(datos, "temperatura_c")),
             alarmas |-> [total |-> alarmas,
                          porcentaje |-> Redondear2(alarmas * 100, n)],
             modos |-> modos,
             kpis |-> [disponibilidad |-> Redondear2(tiempo_produccion * 100, n),
                       cumplimiento_pureza |->
                           Redondear2(pureza_aceptable * 100, n)]]

\* calcular_estadisticas without `if not datos: return {}`: every `if datos
\* else 0` of the body gives 0.
calcular_estadisticas_sin_guarda(datos) ==
    IF datos = <<>>
    THEN [periodo |-> [inicio |-> None, fin |-> None, registros |-> 0],
          pureza |-> safe_stats(<<>>),
          flujo |-> safe_stats(<<>>),
          presion |-> safe_stats(<<>>),
          temperatura |-> safe_stats(<<>>),
          alarmas |-> [total |-> 0, porcentaje |-> 0],
          modos |-> Vacio,
          kpis |-> [disponibilidad |-> 0, cumplimiento_pureza |-> 0]]
    ELSE EstadisticasDe(datos)

\* calcular_estadisticas: {} for an empty slice.
calcular_estadisticas(datos) ==
    IF datos = <<>> THEN Vacio ELSE EstadisticasDe(datos)

\* sum(f(p) for p in plantas.values())
RECURSIVE SumaSobre(_, _)
SumaSobre(pl, k) ==
    IF DOMAIN pl = {} THEN 0
    ELSE LET p == CHOOSE q \in DOMAIN pl : TRUE
         IN pl[p][k] + SumaSobre([q \in DOMAIN pl \ {p} |-> pl[q]], k)

\* The aggregate of a set of rows; the mean and the sum are rounded to two
\* decimals and kept in hundredths.
Agregado(filas) ==
    LET n == Cardinality(DOMAIN filas)
    IN [total_plantas |-> n,
        plantas_operando |->
            Cardinality({p \in DOMAIN filas : filas[p].modo = "Producción"}),
        plantas_mantenimiento |->
            Cardinality({p \in DOMAIN filas : filas[p].modo = "Mantenimiento"}),
        plantas_alarma |->
            Cardinality({p \in DOMAIN filas : filas[p].alarma # 0}),
        pureza_promedio |->
            IF n # 0 THEN Redondear2(SumaSobre(filas, "pureza_pct"), n) ELSE 0,
        flujo_total |->
            IF n # 0 THEN 100 * SumaSobre(filas, "flujo_nm3h") ELSE 0]

\* The aggregate over every row of plantas, active or not
obtener_estadisticas_globales_todas(pl) == Agregado(obtener_plantas_db_todas(pl))

\* obtener_estadisticas_globales
obtener_estadisticas_globales(pl) == Agregado(obtener_plantas_db(pl))

----------------------------------------------------------------------------
(* Handlers *)

\* ultima_alerta.get(planta_id) as <<>> (absent) or <<t>>
UltimaDe(ua, planta_id) ==
    IF planta_id \in DOMAIN ua THEN <<ua[planta_id]>> ELSE <<>>

\* The record kept of a handler that is not recibir_datos.  habia and
\* activa_antes tell whether plantas held a row, and an active row, for the
\* identifier when the handler started; repetida tells that the handler is a
\* deactivation that directly follows the deactivation of the same plant
\* while it was active.
Registro(op, planta_id, status) ==
    [op |-> op, planta_id |-> planta_id, status |-> status,
     alarma_anterior |-> FALSE, alertas |-> <<>>, despachado |-> FALSE,
     podia |-> FALSE, enviado |-> FALSE, entregas |-> <<>>,
     ultima_previa |-> <<>>,
     habia |-> FALSE, activa_antes |-> FALSE, repetida |-> FALSE]

\* `if datos.get("alarma") and not alarma_anterior`
DebeDespachar(datos, alarma_anterior, alertas) ==
    Get(datos, "alarma", FALSE) /\ ~alarma_anterior

\* recibir_datos, after the API key check, on a body that has a planta_id:
\* the new tables, the new ultima_alerta and the handler's locals.  An
\* exception of actualizar_planta_db leaves the try block before the
\* thresholds are evaluated and is answered 500.
recibir_datos(pl, hi, cfg, ua, datos, resultados, ahora) ==
    LET planta_id == datos.planta_id
        activas == obtener_plantas_db(pl)
        alarma_anterior ==
            IF planta_id \in DOMAIN activas
            THEN activas[planta_id].alarma # 0
            ELSE FALSE
        bd == actualizar_planta_db(pl, hi, planta_id, datos, ahora)
        falla == bd.excepcion # ""
        alertas == IF falla THEN <<>>
                   ELSE verificar_umbrales(cfg, planta_id, datos)
        despachado == ~falla /\ DebeDespachar(datos, alarma_anterior, alertas)
        r == IF despachado
             THEN enviar_alerta(cfg, ua, planta_id, resultados, ahora)
             ELSE [entregas |-> <<>>, ultima_alerta |-> ua, enviado |-> FALSE,
                   excepcion |-> FALSE]
    IN [plantas |-> bd.plantas,
        historial |-> bd.historial,
        ultima_alerta |-> r.ultima_alerta,
        ultimo |-> [op |-> "recibir_datos", planta_id |-> planta_id,
                    status |-> IF falla \/ r.excepcion THEN 500 ELSE 200,
                    alarma_anterior |-> alarma_anterior,
                    alertas |-> alertas,
                    despachado |-> despachado,
                    podia |-> puede_enviar(cfg, ua, planta_id, ahora),
                    enviado |-> r.enviado,
                    entregas |-> r.entregas,
                    ultima_previa |-> UltimaDe(ua, planta_id),
                    habia |-> planta_id \in DOMAIN pl,
                    activa_antes |-> planta_id \in DOMAIN activas,
                    repetida |-> FALSE]]

\* What the send_message calls of one request do: each one returns (TRUE) or
\* raises (FALSE).  A request that sends no burst makes no such call.
Resultados(cfg, ua, pl, datos, ahora) ==
    IF /\ "planta_id" \in DOMAIN datos
       /\ recibir_datos(pl, <<>>, cfg, ua, datos,
                         [u \in Destinatarios |-> TRUE], ahora).ultimo.enviado
    THEN [Destinatarios -> BOOLEAN]
    ELSE {[u \in Destinatarios |-> TRUE]}

\* POST /api/datos with one of the given bodies
Recibir(entradas) ==
    \E e \in entradas :
      \E resultados \in Resultados(config_alertas, ultima_alerta, plantas,
                                   Cuerpo(e[1], e[2]), reloj) :
        LET p == e[1]
            datos == Cuerpo(p, e[2])
        IN IF datos = Vacio \/ "planta_id" \notin DOMAIN datos
           THEN /\ ultimo' = Registro("recibir_datos", SinId, 400)
                /\ UNCHANGED <<plantas, historial, config_alertas,
                               ultima_alerta, reloj, llamadas>>
           ELSE /\ Len(llamadas) < MaxLlamadas
                /\ LET r == recibir_datos(plantas, historial, config_alertas,
                                          ultima_alerta, datos, resultados, reloj)
                   IN /\ plantas' = r.plantas
                      /\ historial' = r.historial
                      /\ ultima_alerta' = r.ultima_alerta
                      /\ ultimo' = r.ultimo
                /\ llamadas' = Append(llamadas, [planta_id |-> p, datos |-> datos,
                                              ahora |-> reloj])
                /\ UNCHANGED <<config_alertas, reloj>>

\* POST /api/datos
RecibirDatos == Recibir(Entradas)

\* es_operador_o_admin
es_operador_o_admin(user_id) ==
    \E i \in 1..Len(USUARIOS.admins \o USUARIOS.operadores) :
        (USUARIOS.admins \o USUARIOS.operadores)[i] = user_id

\* manejar_callback, accion == "modo": the payload of the mode toggle.
DatosModo(fila) ==
    [modo |-> IF fila.modo = "Producción" THEN "Mantenimiento" ELSE "Producción"]

\* manejar_callback, accion == "modo"
CambiarModo ==
    \E p \in Comandadas, user \in Destinatarios :
        /\ p \in DOMAIN obtener_plantas_db(plantas)
        /\ es_operador_o_admin(user)
        /\ Len(llamadas) < MaxLlamadas
        /\ LET datos == DatosModo(plantas[p])
               bd == actualizar_planta_db(plantas, historial, p, datos, reloj)
           IN /\ plantas' = bd.plantas
              /\ historial' = bd.historial
              /\ llamadas' = Append(llamadas, [planta_id |-> p, datos |-> datos,
                                              ahora |-> reloj])
        /\ ultimo' = Registro("modo", p, 200)
        /\ UNCHANGED <<config_alertas, ultima_alerta, reloj>>

\* /nueva_planta ID NOMBRE
NuevaPlanta ==
    \E p \in Comandadas :
        LET r == agregar_planta_db(plantas, config_alertas, p, "Planta Sur", reloj)
        IN /\ plantas' = r.plantas
           /\ config_alertas' = r.config_alertas
           /\ ultimo' =
                  [Registro("nueva_planta", p, IF r.ok THEN 200 ELSE 409) EXCEPT
                      !.habia = p \in DOMAIN plantas,
                      !.activa_antes = p \in DOMAIN obtener_plantas_db(plantas)]
           /\ UNCHANGED <<historial, ultima_alerta, reloj, llamadas>>

\* /eliminar_planta ID
EliminarPlanta ==
    \E p \in Comandadas :
        LET r == eliminar_planta_db(plantas, historial, p)
        IN /\ plantas' = r.plantas
           /\ historial' = r.historial
           /\ ultimo' =
                  [Registro("eliminar_planta", p, IF r.ok THEN 200 ELSE 404) EXCEPT
                      !.habia = p \in DOMAIN plantas,
                      !.activa_antes = p \in DOMAIN obtener_plantas_db(plantas),
                      !.repetida = /\ ultimo.op = "eliminar_planta"
                                   /\ ultimo.planta_id = p
                                   /\ ultimo.activa_antes]
           /\ UNCHANGED <<config_alertas, ultima_alerta, reloj, llamadas>>

\* /config_alertas PLANTA_ID INTERVALO_MIN: UPDATE, or INSERT when no row matched.
ConfigIntervalo(cfg, planta_id, intervalo) ==
    IF planta_id \in DOMAIN cfg
    THEN [cfg EXCEPT ![planta_id].intervalo_alerta_min = intervalo]
    ELSE (planta_id :> [ConfigPorDefecto EXCEPT !.intervalo_alerta_min = intervalo])
         @@ cfg

ConfigAlertas ==
    \E p \in Comandadas, intervalo \in Intervalos :
        /\ config_alertas' = ConfigIntervalo(config_alertas, p, intervalo)
        /\ ultimo' = Registro("config_alertas", p, 200)
        /\ UNCHANGED <<plantas, historial, ultima_alerta, reloj, llamadas>>

\* /config_umbrales PLANTA_ID PUREZA_MIN PRESION_MAX TEMP_MAX: UPDATE, or
\* INSERT when no row matched.
ConfigLimites(cfg, planta_id, u) ==
    IF planta_id \in DOMAIN cfg
    THEN [cfg EXCEPT ![planta_id].pureza_minima = u.pureza_minima,
                     ![planta_id].presion_maxima = u.presion_maxima,
                     ![planta_id].temperatura_maxima = u.temperatura_maxima]
    ELSE (planta_id :> [ConfigPorDefecto EXCEPT
                           !.pureza_minima = u.pureza_minima,
                           !.presion_maxima = u.presion_maxima,
                           !.temperatura_maxima = u.temperatura_maxima])
         @@ cfg

\* The limits given to /config_umbrales.
Umbrales ==
    {[pureza_minima |-> 90, presion_maxima |-> 8, temperatura_maxima |-> 50],
     [pureza_minima |-> 95, presion_maxima |-> 6, temperatura_maxima |-> 40]}

ConfigUmbrales ==
    \E p \in Comandadas, u \in Umbrales :
        /\ config_alertas' = ConfigLimites(config_alertas, p, u)
        /\ ultimo' = Registro("config_umbrales", p, 200)
        /\ UNCHANGED <<plantas, historial, ultima_alerta, reloj, llamadas>>

\* The receiver's clock advances.
Tic ==
    /\ reloj < MaxTics * PasoReloj
    /\ reloj' = reloj + PasoReloj
    /\ UNCHANGED <<plantas, historial, config_alertas, ultima_alerta,
                   llamadas, ultimo>>

----------------------------------------------------------------------------
(* Specification *)

\* The config_alertas table of the database file found at start-up.  The
\* program itself only ever writes alertas_activas = 1; the row with
\* alertas_activas = 0 is one an administrator put in the file, for p2.
ConfigInicial ==
    "p2" :> [ConfigPorDefecto EXCEPT !.alertas_activas = 0]

Init ==
    /\ plantas = Vacio
    /\ historial = <<>>
    /\ config_alertas = ConfigInicial
    /\ ultima_alerta = Vacio
    /\ reloj = 0
    /\ llamadas = <<>>
    /\ ultimo = Registro("main", SinId, 0)

Next ==
    \/ RecibirDatos
    \/ CambiarModo
    \/ NuevaPlanta
    \/ EliminarPlanta
    \/ ConfigAlertas
    \/ Tic

Spec == Init /\ [][Next]_vars

----------------------------------------------------------------------------
(* Specification of ingestion across restarts of the process.                *)

\* The process is stopped and main() runs again: the database file is the
\* one left behind and SistemaAlertas(app) starts with an empty ultima_alerta.
Reinicio ==
    /\ ultima_alerta' = Vacio
    /\ ultimo' = Registro("main", SinId, 0)
    /\ UNCHANGED <<plantas, historial, config_alertas, reloj, llamadas>>

NextReinicio == RecibirDatos \/ Reinicio \/ Tic

SpecReinicio == Init /\ [][NextReinicio]_vars

----------------------------------------------------------------------------
(* Specification of the validation of POST /api/datos: bodies with and       *)
(* without a usable planta_id.                                               *)

\* The bodies posted: with the identifier p1, with the empty string, with a
\* JSON null, without the planta_id key, and the empty object.
EntradasDeValidacion ==
    ({"p1", ""} \X {CargaCompleta, CargaAlarma})
    \cup {<<IdNulo, CargaCompleta>>, <<SinId, CargaCompleta>>, <<SinId, Vacio>>}

NextValidacion == Recibir(EntradasDeValidacion) \/ Tic

SpecValidacion == Init /\ [][NextValidacion]_vars

----------------------------------------------------------------------------
(* Specification of concurrent ingestion.  flask_app.run(threaded=True)      *)
(* serves every request on a thread of its own; each call of                 *)
(* actualizar_planta_db opens its own connection, and SistemaAlertas is one  *)
(* object shared by the threads.  A thread's step is a stretch of            *)
(* recibir_datos between two points where another thread can observe or      *)
(* change the shared state: a database statement outside the write lock, the *)
(* transaction of actualizar_planta_db (serialised by sqlite's write lock),  *)
(* the cool-down test of enviar_alerta, and the sends that end with the      *)
(* assignment to ultima_alerta.  Here ultimo holds the locals of the request *)
(* that each thread is serving.                                              *)

Hilos == {1, 2}

\* A thread that serves no request yet.
HiloLibre ==
    [pc |-> "libre", planta_id |-> SinId, datos |-> Vacio,
     alarma_anterior |-> FALSE, existe |-> FALSE, ahora |-> 0, status |-> 0,
     enviado |-> FALSE]

\* The bodies posted concurrently.
EntradasConcurrentes ==
    ({"p1"} \X {CargaCompleta, CargaAlarma}) \cup {<<"p2", CargaAlarma>>}

\* The tables that a sequence of calls of actualizar_planta_db leaves when
\* the calls run one after the other.
RECURSIVE EnSerie(_)
EnSerie(calls) ==
    IF calls = <<>> THEN [plantas |-> Vacio, historial |-> <<>>]
    ELSE LET antes == EnSerie(SubSeq(calls, 1, Len(calls) - 1))
             c == calls[Len(calls)]
             bd == actualizar_planta_db(antes.plantas, antes.historial,
                                        c.planta_id, c.datos, c.ahora)
         IN [plantas |-> bd.plantas, historial |-> bd.historial]

\* The calls already made when the two requests arrive: none, or one for p1.
LlamadasPrevias ==
    {<<>>,
     <<[planta_id |-> "p1", datos |-> Cuerpo("p1", CargaPurezaBaja), ahora |-> 0]>>}

InitConcurrente ==
    /\ llamadas \in LlamadasPrevias
    /\ plantas = EnSerie(llamadas).plantas
    /\ historial = EnSerie(llamadas).historial
    /\ config_alertas = ConfigInicial
    /\ ultima_alerta = Vacio
    /\ reloj = 0
    /\ ultimo = [op |-> "hilos", hilos |-> [h \in Hilos |-> HiloLibre]]

\* The thread h goes on with the given locals.
Sigue(h, locales) ==
    ultimo' = [ultimo EXCEPT !.hilos[h] = locales]

\* recibir_datos up to `alarma_anterior = plantas.get(planta_id, {}).get(
\* "alarma", False)`: the body is validated and the active plants are read.
Llegar(h) ==
    \E e \in EntradasConcurrentes :
        LET datos == Cuerpo(e[1], e[2])
            activas == obtener_plantas_db(plantas)
        IN /\ ultimo.hilos[h].pc = "libre"
           /\ Sigue(h, [HiloLibre EXCEPT
                  !.pc = "leido",
                  !.planta_id = datos.planta_id,
                  !.datos = datos,
                  !.alarma_anterior =
                      IF datos.planta_id \in DOMAIN activas
                      THEN activas[datos.planta_id].alarma # 0
                      ELSE FALSE])
           /\ UNCHANGED <<plantas, historial, config_alertas, ultima_alerta,
                          reloj, llamadas>>

\* actualizar_planta_db up to `timestamp = datetime.now().isoformat()`: the
\* SELECT that tells whether the plant has a row.
Seleccionar(h) ==
    LET yo == ultimo.hilos[h]
    IN /\ yo.pc = "leido"
       /\ Sigue(h, [yo EXCEPT !.pc = "seleccionado",
                               !.existe = yo.planta_id \in DOMAIN plantas,
                               !.ahora = reloj])
       /\ UNCHANGED <<plantas, historial, config_alertas, ultima_alerta,
                      reloj, llamadas>>

\* The rest of actualizar_planta_db: the write statements and the commit, or
\* the exception that recibir_datos answers with 500.
Confirmar(h) ==
    LET yo == ultimo.hilos[h]
        bd == Escribir(plantas, historial, yo.planta_id, yo.datos, yo.ahora,
                       yo.existe)
    IN /\ yo.pc = "seleccionado"
       /\ plantas' = bd.plantas
       /\ historial' = bd.historial
       /\ llamadas' = Append(llamadas, [planta_id |-> yo.planta_id,
                                        datos |-> yo.datos, ahora |-> yo.ahora])
       /\ IF bd.excepcion # ""
          THEN Sigue(h, [yo EXCEPT !.pc = "fin", !.status = 500])
          ELSE Sigue(h, [yo EXCEPT !.pc = "escrito"])
       /\ UNCHANGED <<config_alertas, ultima_alerta, reloj>>

\* recibir_datos from verificar_umbrales on, and enviar_alerta up to the
\* first send_message: the dispatch condition, puede_enviar and the
\* alertas_activas test.
Verificar(h) ==
    LET yo == ultimo.hilos[h]
        alertas == verificar_umbrales(config_alertas, yo.planta_id, yo.datos)
        pasa == /\ DebeDespachar(yo.datos, yo.alarma_anterior, alertas)
                /\ puede_enviar(config_alertas, ultima_alerta, yo.planta_id, reloj)
                /\ obtener_config(config_alertas, yo.planta_id).alertas_activas # 0
    IN /\ yo.pc = "escrito"
       /\ IF pasa
          THEN Sigue(h, [yo EXCEPT !.pc = "enviando"])
          ELSE Sigue(h, [yo EXCEPT !.pc = "fin", !.status = 200])
       /\ UNCHANGED <<plantas, historial, config_alertas, ultima_alerta,
                      reloj, llamadas>>

\* The sends of enviar_alerta, `self.ultima_alerta[planta_id] =
\* datetime.now()` and the answer of recibir_datos.
Enviar(h) ==
    LET yo == ultimo.hilos[h]
    IN /\ yo.pc = "enviando"
       /\ ultima_alerta' = (yo.planta_id :> reloj) @@ ultima_alerta
       /\ Sigue(h, [yo EXCEPT !.pc = "fin", !.status = 200, !.enviado = TRUE,
                               !.ahora = reloj])
       /\ UNCHANGED <<plantas, historial, config_alertas, reloj, llamadas>>

NextConcurrente ==
    \/ \E h \in Hilos : Llegar(h)
    \/ \E h \in Hilos : Seleccionar(h)
    \/ \E h \in Hilos : Confirmar(h)
    \/ \E h \in Hilos : Verificar(h)
    \/ \E h \in Hilos : Enviar(h)
    \/ Tic

SpecConcurrente == InitConcurrente /\ [][NextConcurrente]_vars

----------------------------------------------------------------------------
(* Specification of the fan-out of one burst, send by send.  recibir_datos   *)
(* runs enviar_alerta to completion with loop.run_until_complete, and        *)
(* enviar_alerta awaits each send_message in turn.  Here ultimo holds the    *)
(* position of the request being served.                                     *)

\* What an awaited send_message does: it returns, it raises, or it never
\* completes.
Respuestas == {"retorna", "lanza", "nunca"}

\* The request being served: pc is its position, i the index in `todos` of
\* the recipient whose send is next or under way.
Peticion(pc, planta_id, status, i, respuesta, entregas) ==
    [op |-> "entrega", pc |-> pc, planta_id |-> planta_id, status |-> status,
     i |-> i, respuesta |-> respuesta, entregas |-> entregas]

InitEntrega ==
    /\ plantas = Vacio
    /\ historial = <<>>
    /\ config_alertas = ConfigInicial
    /\ ultima_alerta = Vacio
    /\ reloj = 0
    /\ llamadas = <<>>
    /\ ultimo = Peticion("libre", SinId, 0, 0, "", <<>>)

\* recibir_datos up to the first send_message of enviar_alerta, or up to its
\* answer when no burst is sent.
Recepcion ==
    \E e \in Entradas :
        LET datos == Cuerpo(e[1], e[2])
            r == recibir_datos(plantas, historial, config_alertas, ultima_alerta,
                               datos, [u \in Destinatarios |-> TRUE], reloj)
        IN /\ ultimo.pc \in {"libre", "respondida"}
           /\ e[1] # SinId
           /\ Len(llamadas) < MaxLlamadas
           /\ plantas' = r.plantas
           /\ historial' = r.historial
           /\ llamadas' = Append(llamadas, [planta_id |-> e[1], datos |-> datos,
                                            ahora |-> reloj])
           /\ ultimo' = IF r.ultimo.enviado /\ Todos # <<>>
                        THEN Peticion("enviando", e[1], 0, 1, "", <<>>)
                        ELSE Peticion("respondida", e[1], 200, 0, "", <<>>)
           /\ UNCHANGED <<config_alertas, ultima_alerta, reloj>>

\* `await self.bot_app.bot.send_message(chat_id=user_id, ...)` is reached for
\* the i-th recipient.
Llamar ==
    \E respuesta \in Respuestas :
        /\ ultimo.pc = "enviando"
        /\ ultimo' = [ultimo EXCEPT !.pc = "esperando", !.respuesta = respuesta]
        /\ UNCHANGED <<plantas, historial, config_alertas, ultima_alerta,
                       reloj, llamadas>>

\* The awaited send_message completes: the loop goes on with the next
\* recipient, or ends, ultima_alerta is assigned and recibir_datos answers.
Retornar ==
    LET hecha == Append(ultimo.entregas,
                        [usuario |-> Todos[ultimo.i],
                         ok |-> ultimo.respuesta = "retorna"])
    IN /\ ultimo.pc = "esperando"
       /\ ultimo.respuesta # "nunca"
       /\ IF ultimo.i < Len(Todos)
          THEN /\ ultimo' = [ultimo EXCEPT !.pc = "enviando", !.i = ultimo.i + 1,
                                           !.respuesta = "", !.entregas = hecha]
               /\ UNCHANGED ultima_alerta
          ELSE /\ ultimo' = [ultimo EXCEPT !.pc = "respondida", !.status = 200,
                                           !.respuesta = "", !.entregas = hecha]
               /\ ultima_alerta' = (ultimo.planta_id :> reloj) @@ ultima_alerta
       /\ UNCHANGED <<plantas, historial, config_alertas, reloj, llamadas>>

NextEntrega == Recepcion \/ Llamar \/ Retornar \/ Tic

SpecEntrega == InitEntrega /\ [][NextEntrega]_vars

\* The thread that serves the request keeps running: a step of it that stays
\* possible is taken.
SpecEntregaJusta ==
    SpecEntrega /\ WF_vars(Llamar) /\ WF_vars(Retornar)

----------------------------------------------------------------------------
(* Specification of the history query: GET /api/historial_json over the      *)
(* contents that historial can have.                                         *)

\* The clock readings of the stored rows: midnight, the last second of the
\* day and half a second later, on two days.
Instantes ==
    {[dia |-> d, seg |-> h[1], micro |-> h[2]] :
        d \in {1, 2}, h \in {<<0, 0>>, <<86399, 0>>, <<86399, 500000>>}}

\* The row that the i-th call of actualizar_planta_db inserts, for plant p at
\* clock reading t; the purity 90 + i tells the rows apart.
FilaDe(i, p, t) == Muestra(p, [pureza_pct |-> 90 + i], isoformat(t))

\* The plant and the clock reading of a stored row: p1 at any of the
\* readings, p2 at one of them.
Origenes ==
    ({"p1"} \X Instantes) \cup {<<"p2", [dia |-> 1, seg |-> 86399, micro |-> 0]>>}

\* The tables of up to MaxFilas rows, in any order of the clock readings (the
\* wall clock of datetime.now() can be set back between two calls).
Historiales ==
    UNION {{[i \in 1..n |-> FilaDe(i, f[i][1], f[i][2])] :
               f \in [1..n -> Origenes]} : n \in 0..MaxFilas}

\* request.args.get("desde") / request.args.get("hasta"): absent, a date, or a
\* date and time.
Cotas == {<<>>, <<<<1>>>>, <<<<2>>>>, <<<<1, 86399>>>>}

InitConsulta ==
    /\ plantas = Vacio
    /\ historial \in Historiales
    /\ config_alertas = Vacio
    /\ ultima_alerta = Vacio
    /\ reloj = 0
    /\ llamadas = <<>>
    /\ ultimo = Registro("main", SinId, 0)

\* GET /api/historial_json?planta_id=p1&desde=...&hasta=...
HistorialJson ==
    \E desde \in Cotas, hasta \in Cotas :
        /\ ultimo' = [op |-> "historial_json", planta_id |-> "p1",
                      desde |-> desde, hasta |-> hasta, status |-> 200,
                      datos |-> obtener_historial_db(historial, "p1", desde,
                                                     hasta, <<>>)]
        /\ UNCHANGED <<plantas, historial, config_alertas, ultima_alerta,
                       reloj, llamadas>>

NextConsulta == HistorialJson

SpecConsulta == InitConsulta /\ [][NextConsulta]_vars

----------------------------------------------------------------------------
(* Specification of the threshold evaluator: verificar_umbrales on the data  *)
(* points around the limits, under the configurations that /config_umbrales  *)
(* can store.                                                                *)

\* The metric values of a data point; <<>> is a key the body lacks.
Lecturas ==
    {[pureza |-> a, presion |-> b, temp |-> c] :
        a \in {<<>>, <<89>>, <<90>>, <<92>>, <<93>>, <<94>>, <<95>>},
        b \in {<<>>, <<6>>, <<7>>, <<8>>, <<9>>},
        c \in {<<>>, <<40>>, <<45>>, <<46>>, <<50>>, <<51>>}}

\* The JSON body with the keys that a reading has.
CuerpoDe(planta_id, l) ==
    [planta_id |-> planta_id]
    @@ (IF l.pureza = <<>> THEN Vacio ELSE [pureza_pct |-> l.pureza[1]])
    @@ (IF l.presion = <<>> THEN Vacio ELSE [presion_bar |-> l.presion[1]])
    @@ (IF l.temp = <<>> THEN Vacio ELSE [temperatura_c |-> l.temp[1]])

InitUmbrales ==
    /\ plantas = Vacio
    /\ historial = <<>>
    /\ config_alertas = Vacio
    /\ ultima_alerta = Vacio
    /\ reloj = 0
    /\ llamadas = <<>>
    /\ ultimo = Registro("main", SinId, 0)

\* alertas = sistema_alertas.verificar_umbrales(planta_id, datos)
VerificarUmbrales ==
    \E p \in Comandadas, l \in Lecturas :
        /\ ultimo' = [op |-> "verificar_umbrales", planta_id |-> p,
                      datos |-> CuerpoDe(p, l), status |-> 200,
                      alertas |-> verificar_umbrales(config_alertas, p,
                                                     CuerpoDe(p, l))]
        /\ UNCHANGED <<plantas, historial, config_alertas, ultima_alerta,
                       reloj, llamadas>>

NextUmbrales == ConfigUmbrales \/ VerificarUmbrales

SpecUmbrales == InitUmbrales /\ [][NextUmbrales]_vars

----------------------------------------------------------------------------
(* Specification of the statistics: GET /api/estadisticas over the rows that *)
(* historial can hold for a plant, under the configurations that             *)
(* /config_umbrales can store.                                               *)

\* The payloads of the stored rows; null is a JSON null.
CargasMedidas ==
    {[pureza_pct |-> 90, flujo_nm3h |-> 10, modo |-> "Producción",
      alarma |-> FALSE],
     [pureza_pct |-> 95, flujo_nm3h |-> None, modo |-> "Producción",
      alarma |-> FALSE],
     [pureza_pct |-> 85, flujo_nm3h |-> 12, modo |-> "Mantenimiento",
      alarma |-> TRUE],
     [pureza_pct |-> 93, flujo_nm3h |-> None, alarma |-> FALSE],
     [pureza_pct |-> None, flujo_nm3h |-> 10, modo |-> "Producción",
      alarma |-> FALSE]}

\* The tables of up to MaxFilas rows of p1, the i-th stored at minute i.
HistorialesMedidos ==
    UNION {{[i \in 1..n |-> Muestra("p1", f[i], MarcaDeTiempo(f[i], i))] :
               f \in [1..n -> CargasMedidas]} : n \in 0..MaxFilas}

InitEstadisticas ==
    /\ plantas = Vacio
    /\ historial \in HistorialesMedidos
    /\ config_alertas = Vacio
    /\ ultima_alerta = Vacio
    /\ reloj = 0
    /\ llamadas = <<>>
    /\ ultimo = Registro("main", SinId, 0)

\* GET /api/estadisticas?planta_id=p1: an exception that leaves the view is
\* answered 500.
EstadisticasApi ==
    \E p \in Comandadas :
        LET datos == obtener_historial_db(historial, p, <<>>, <<>>, <<>>)
            stats == calcular_estadisticas(datos)
        IN /\ ultimo' = [op |-> "estadisticas", planta_id |-> p,
                         status |-> IF "excepcion" \in DOMAIN stats
                                    THEN 500 ELSE 200,
                         stats |-> stats]
           /\ UNCHANGED <<plantas, historial, config_alertas, ultima_alerta,
                          reloj, llamadas>>

NextEstadisticas == ConfigUmbrales \/ EstadisticasApi

SpecEstadisticas == InitEstadisticas /\ [][NextEstadisticas]_vars

----------------------------------------------------------------------------
(* Properties *)

LlamadasDe(p) == SelectSeq(llamadas, LAMBDA c : c.planta_id = p)

\* GET /api/historial_json?planta_id=p with no desde, hasta or limite
HistorialDe(p) == obtener_historial_db(historial, p, <<>>, <<>>, <<>>)

UltimaLlamada == llamadas[Len(llamadas)]

\* The handler that ran last is a recibir_datos that got past validation and
\* called actualizar_planta_db.
TrasIngesta == ultimo.op = "recibir_datos" /\ ultimo.status # 400

\* The metric values a call carries, with the defaults for absent numbers.
DatosDe(c) ==
    <<isoformat(FechaHora(c.ahora)), Get(c.datos, "presion_bar", 0), Get(c.datos, "temperatura_c", 0),
      Get(c.datos, "pureza_pct", 0), Get(c.datos, "flujo_nm3h", 0),
      Get(c.datos, "alarma", FALSE), Get(c.datos, "mensaje_alarma", "")>>

DatosDeMuestra(m) ==
    <<m.timestamp, m.presion_bar, m.temperatura_c, m.pureza_pct, m.flujo_nm3h,
      m.alarma = 1, m.mensaje_alarma>>

C2_UltimaLlamadaSobrescribeTodo ==
    \A p \in Ids :
        LlamadasDe(p) # <<>> =>
            LET d == LlamadasDe(p)[Len(LlamadasDe(p))].datos
                f == plantas[p]
            IN /\ f.presion_bar = Get(d, "presion_bar", 0)
               /\ f.temperatura_c = Get(d, "temperatura_c", 0)
               /\ f.pureza_pct = Get(d, "pureza_pct", 0)
               /\ f.flujo_nm3h = Get(d, "flujo_nm3h", 0)
               /\ f.horas_operacion = Get(d, "horas_operacion", 0)
               /\ f.modo = Get(d, "modo", "Desconocido")
               /\ f.alarma = (IF Get(d, "alarma", FALSE) THEN 1 ELSE 0)
               /\ f.mensaje_alarma = Get(d, "mensaje_alarma", "")
               /\ ("nombre" \in DOMAIN d => f.nombre = d.nombre)

\* C2 as amended: a call overwrites pressure, temperature, purity, flow, mode,
\* alarm and alarm message with its value or the default; the name and the
\* operating hours are overwritten when the call carries them and are
\* otherwise kept from the row (or take the default when the row is new).
C2_NombreYHorasSePreservan ==
    [][llamadas' # llamadas =>
        LET c == llamadas'[Len(llamadas')]
            p == c.planta_id
            d == c.datos
            f == plantas'[p]
            habia == p \in DOMAIN plantas
        IN /\ f.presion_bar = Get(d, "presion_bar", 0)
           /\ f.temperatura_c = Get(d, "temperatura_c", 0)
           /\ f.pureza_pct = Get(d, "pureza_pct", 0)
           /\ f.flujo_nm3h = Get(d, "flujo_nm3h", 0)
           /\ f.modo = Get(d, "modo", "Desconocido")
           /\ f.alarma = (IF Get(d, "alarma", FALSE) THEN 1 ELSE 0)
           /\ f.mensaje_alarma = Get(d, "mensaje_alarma", "")
           /\ f.nombre = (IF "nombre" \in DOMAIN d THEN d.nombre
                          ELSE IF habia THEN plantas[p].nombre
                          ELSE NombrePorDefecto(p))
           /\ f.horas_operacion =
                  (IF "horas_operacion" \in DOMAIN d THEN d.horas_operacion
                   ELSE IF habia THEN plantas[p].horas_operacion
                   ELSE 0)
           /\ \A q \in DOMAIN plantas \ {p} : plantas'[q] = plantas[q]
    ]_vars

\* The last call for p1 carried neither name nor hours, and the row still has
\* the name and the hours of an earlier call.
C2_Testigo ==
    /\ Len(LlamadasDe("p1")) >= 2
    /\ LET d == LlamadasDe("p1")[Len(LlamadasDe("p1"))].datos
       IN /\ "nombre" \notin DOMAIN d
          /\ "horas_operacion" \notin DOMAIN d
    /\ plantas["p1"].nombre = "Planta Norte"
    /\ plantas["p1"].horas_operacion = 100

\* C3 as stated: the newest sample of a plant has the same pressure,
\* temperature, purity, flow, operating hours, mode, alarm flag and alarm
\* message as the plant's row.
C3_MuestraIgualALaFila ==
    \A p \in Ids :
        HistorialDe(p) # <<>> =>
            LET m == HistorialDe(p)[Len(HistorialDe(p))]
                f == plantas[p]
            IN /\ m.presion_bar = f.presion_bar
               /\ m.temperatura_c = f.temperatura_c
               /\ m.pureza_pct = f.pureza_pct
               /\ m.flujo_nm3h = f.flujo_nm3h
               /\ m.horas_operacion = f.horas_operacion
               /\ m.modo = f.modo
               /\ m.alarma = f.alarma
               /\ m.mensaje_alarma = f.mensaje_alarma

\* C4: no step removes or changes a row of historial, and a query for a
\* deactivated plant returns every row that historial holds for it.
C4_HistorialSoloCrece ==
    [][/\ Len(historial') >= Len(historial)
       /\ \A i \in 1..Len(historial) : historial'[i] = historial[i]
       /\ \A p \in DOMAIN plantas' :
              plantas'[p].activa = 0 =>
                  \A q \in {obtener_historial_db(historial', p, <<>>, <<>>, <<>>)} :
                     /\ \A i \in 1..Len(historial') :
                            historial'[i].planta_id = p =>
                                \E j \in 1..Len(q) : q[j] = historial'[i]
                     /\ Len(q) = Cardinality({i \in 1..Len(historial') :
                                                 historial'[i].planta_id = p})
    ]_vars

\* p1 has just been deactivated and has two samples or more.
C4_Testigo ==
    /\ ultimo.op = "eliminar_planta"
    /\ ultimo.status = 200
    /\ plantas["p1"].activa = 0
    /\ Len(HistorialDe("p1")) >= 2

EventoDisparador ==
    /\ TrasIngesta
    /\ (Get(UltimaLlamada.datos, "alarma", FALSE) \/ ultimo.alertas # <<>>)

AlertasActivas(p) == obtener_config(config_alertas, p).alertas_activas # 0

\* C6 as stated: recibir_datos calls the dispatcher exactly when the body's
\* alarm flag is true or verificar_umbrales returned a violation; so a first
\* event with purity 85 and alarm false on a plant with alerts enabled is sent.
C6_DisparaPorAlarmaOUmbral ==
    TrasIngesta =>
        /\ ultimo.despachado = EventoDisparador
        /\ (/\ EventoDisparador
            /\ ultimo.ultima_previa = <<>>
            /\ AlertasActivas(ultimo.planta_id)
            => ultimo.enviado)

\* C7 as stated: on a plant with alerts enabled a triggering event sends a
\* burst exactly when no burst was sent for the plant before or the
\* configured interval has passed since the last one.
C7_UnaRafagaPorIntervalo ==
    (EventoDisparador /\ AlertasActivas(ultimo.planta_id)) =>
        (ultimo.enviado = ultimo.podia)

\* C8: a request for a plant whose alertas_activas is 0 sends nothing and
\* leaves the plant's entry of ultima_alerta as it was.
C8_AlertasDesactivadas ==
    (TrasIngesta /\ ~AlertasActivas(ultimo.planta_id)) =>
        /\ ultimo.entregas = <<>>
        /\ ~ultimo.enviado
        /\ UltimaDe(ultima_alerta, ultimo.planta_id) = ultimo.ultima_previa

\* The dispatcher was called for a plant whose alerts are disabled, on an
\* event that the interval test let through.
C8_Testigo ==
    /\ TrasIngesta
    /\ ~AlertasActivas(ultimo.planta_id)
    /\ ultimo.despachado
    /\ ultimo.podia

\* C9: in a burst send_message is tried for every recipient, in the order of
\* the recipient list, whatever the earlier sends did, and the plant's
\* ultima_alerta is the time of the burst.
C9_FalloNoBloqueaLaRafaga ==
    (TrasIngesta /\ ultimo.entregas # <<>>) =>
        /\ Len(ultimo.entregas) = Len(Todos)
        /\ \A i \in 1..Len(Todos) : ultimo.entregas[i].usuario = Todos[i]
        /\ ultimo.planta_id \in DOMAIN ultima_alerta
        /\ ultima_alerta[ultimo.planta_id] = UltimaLlamada.ahora

\* A burst whose first send failed and whose second send succeeded.
C9_Testigo ==
    /\ TrasIngesta
    /\ Len(ultimo.entregas) = 2
    /\ ~ultimo.entregas[1].ok
    /\ ultimo.entregas[2].ok
    /\ ultima_alerta[ultimo.planta_id] = UltimaLlamada.ahora

\* C10: a request in which a send failed has stored its sample and answers 200.
C10_FalloDeEntregaNoSePropaga ==
    (TrasIngesta /\ \E i \in 1..Len(ultimo.entregas) : ~ultimo.entregas[i].ok) =>
        /\ ultimo.status = 200
        /\ Len(historial) = Len(llamadas)
        /\ historial[Len(historial)].planta_id = ultimo.planta_id
        /\ historial[Len(historial)].timestamp =
               isoformat(FechaHora(UltimaLlamada.ahora))

\* A request answered 200 in which every send failed.
C10_Testigo ==
    /\ TrasIngesta
    /\ ultimo.status = 200
    /\ Len(ultimo.entregas) = Len(Todos)
    /\ \A i \in 1..Len(ultimo.entregas) : ~ultimo.entregas[i].ok
    /\ historial[Len(historial)].planta_id = ultimo.planta_id

\* The defaults of the plantas columns that registration leaves unset.
MetricasEnCero(fila) ==
    /\ fila.presion_bar = 0
    /\ fila.temperatura_c = 0
    /\ fila.pureza_pct = 0
    /\ fila.flujo_nm3h = 0
    /\ fila.horas_operacion = 0
    /\ fila.alarma = 0

\* C11 as stated: a registration for an identifier that had no row in plantas
\* leaves an active row with pressure, temperature, purity, flow and hours 0
\* and the alarm flag off, and a config_alertas row with the default limits,
\* interval 5 and alerts enabled.
C11_RegistroCreaPlantaYConfig ==
    (ultimo.op = "nueva_planta" /\ ~ultimo.habia) =>
        LET p == ultimo.planta_id
        IN /\ p \in DOMAIN plantas
           /\ plantas[p].activa = 1
           /\ MetricasEnCero(plantas[p])
           /\ p \in DOMAIN config_alertas
           /\ config_alertas[p] =
                  [intervalo_alerta_min |-> 5, alertas_activas |-> 1,
                   pureza_minima |-> PUREZA_MINIMA,
                   presion_maxima |-> PRESION_MAXIMA,
                   temperatura_maxima |-> TEMPERATURA_MAXIMA]

\* C12 as stated: a registration answers "already exists" exactly when the
\* identifier had an active row; in every other case it answers success and
\* the plant is active afterwards.
C12_YaExisteSoloSiActiva ==
    ultimo.op = "nueva_planta" =>
        IF ultimo.activa_antes
        THEN ultimo.status = 409
        ELSE /\ ultimo.status = 200
             /\ ultimo.planta_id \in DOMAIN obtener_plantas_db(plantas)

\* C13 as stated: deactivating an active plant answers success, and a second
\* deactivation of the same plant with no handler in between answers
\* "not found".
C13_SegundaBajaNoEncontrada ==
    ultimo.op = "eliminar_planta" =>
        /\ (ultimo.activa_antes => ultimo.status = 200)
        /\ (ultimo.repetida => ultimo.status = 404)

\* C14: plantas holds one row per identifier (a registration that finds a row
\* is rejected instead of adding one), and obtener_plantas_db returns exactly
\* the rows whose activa is 1, as they are stored: a plant that has just been
\* deactivated is not listed and a plant that has just been registered or
\* created by ingestion is.
C14_ListadoSoloActivas ==
    LET lista == obtener_plantas_db(plantas)
    IN /\ DOMAIN lista \subseteq DOMAIN plantas
       /\ \A p \in DOMAIN plantas :
              /\ (p \in DOMAIN lista) = (plantas[p].activa = 1)
              /\ (p \in DOMAIN lista => lista[p] = plantas[p])
       /\ (ultimo.op = "eliminar_planta" /\ ultimo.status = 200
              => ultimo.planta_id \notin DOMAIN lista)
       /\ (ultimo.op = "nueva_planta" /\ ultimo.status = 200
              => ultimo.planta_id \in DOMAIN lista)
       /\ (ultimo.op = "nueva_planta" /\ ultimo.habia => ultimo.status = 409)
       /\ (TrasIngesta /\ ~ultimo.habia => ultimo.planta_id \in DOMAIN lista)

\* p1 has just been deactivated while p2 is active: the listing is p2 alone.
C14_Testigo ==
    /\ ultimo.op = "eliminar_planta"
    /\ ultimo.status = 200
    /\ DOMAIN plantas = {"p1", "p2"}
    /\ DOMAIN obtener_plantas_db(plantas) = {"p2"}

\* datetime.fromisoformat: the instant a timestamp text denotes; a date alone
\* denotes midnight.
fromisoformat(t) ==
    [dia |-> t[1],
     seg |-> IF Len(t) >= 2 THEN t[2] ELSE 0,
     micro |-> IF Len(t) >= 3 THEN t[3] ELSE 0]

\* a is not later than b
NoDespues(a, b) ==
    \/ a.dia < b.dia
    \/ a.dia = b.dia /\ a.seg < b.seg
    \/ a.dia = b.dia /\ a.seg = b.seg /\ a.micro <= b.micro

\* The instant of a lower bound, and of an upper bound whose date-only form
\* stands for 23:59:59 of that day.
InstanteDesde(texto) == fromisoformat(texto)

InstanteHasta(texto) ==
    IF Len(texto) = 1 THEN [dia |-> texto[1], seg |-> 86399, micro |-> 0]
    ELSE fromisoformat(texto)

\* The rowids of the rows of plant p whose instant lies in [desde, hasta].
EnRango(p, desde, hasta) ==
    {i \in 1..Len(historial) :
        /\ historial[i].planta_id = p
        /\ (desde # <<>> =>
               NoDespues(InstanteDesde(desde[1]),
                         fromisoformat(historial[i].timestamp)))
        /\ (hasta # <<>> =>
               NoDespues(fromisoformat(historial[i].timestamp),
                         InstanteHasta(hasta[1])))}

\* The rowid of a returned row.
Rowid(m) == CHOOSE i \in 1..Len(historial) : historial[i] = m

DiaDe(cota) == IF cota # <<>> /\ Len(cota[1]) = 1 THEN <<cota[1][1]>> ELSE <<>>

\* C16 as stated: a date-only hasta admits every row stored on that calendar
\* day, up to the end of the day and whatever its sub-second part, and a
\* date-only desde admits every row from 00:00:00 of its day on; the query
\* returns every row of the plant that both bounds admit.
C16_DiaCompleto ==
    ultimo.op = "historial_json" =>
        \A i \in 1..Len(historial) :
            LET t == fromisoformat(historial[i].timestamp)
                desde == ultimo.desde
                hasta == ultimo.hasta
            IN (/\ historial[i].planta_id = ultimo.planta_id
                /\ (desde # <<>> =>
                       IF DiaDe(desde) # <<>> THEN DiaDe(desde)[1] <= t.dia
                       ELSE NoDespues(fromisoformat(desde[1]), t))
                /\ (hasta # <<>> =>
                       IF DiaDe(hasta) # <<>> THEN t.dia <= DiaDe(hasta)[1]
                       ELSE NoDespues(t, fromisoformat(hasta[1]))))
               => \E j \in 1..Len(ultimo.datos) : ultimo.datos[j] = historial[i]

\* The limits in force for a plant: its config_alertas row, or the global
\* defaults when it has none.
LimitesDe(p) ==
    IF p \in DOMAIN config_alertas
    THEN <<config_alertas[p].pureza_minima, config_alertas[p].presion_maxima,
           config_alertas[p].temperatura_maxima>>
    ELSE <<PUREZA_MINIMA, PRESION_MAXIMA, TEMPERATURA_MAXIMA>>

\* Which of the three conditions hold for a data point, in the order purity,
\* pressure, temperature; a data point without a purity has no purity
\* violation.
Violaciones(p, datos) ==
    <<"pureza_pct" \in DOMAIN datos /\ datos.pureza_pct < LimitesDe(p)[1],
      "presion_bar" \in DOMAIN datos /\ datos.presion_bar > LimitesDe(p)[2],
      "temperatura_c" \in DOMAIN datos /\ datos.temperatura_c > LimitesDe(p)[3]>>

NombresDeAlerta == <<"Pureza baja", "Presión alta", "Temperatura alta">>

\* C17: the list verificar_umbrales returns holds one entry for each condition
\* that holds (purity strictly below the minimum in force, pressure strictly
\* above the maximum, temperature strictly above the maximum) and no other
\* entry, in the order purity, pressure, temperature; it is empty when none
\* holds; and the call changes no table and no dispatcher state.
C17_ViolacionesEnOrdenFijo ==
    [][(ultimo'.op = "verificar_umbrales" /\ ultimo' # ultimo) =>
        LET v == Violaciones(ultimo'.planta_id, ultimo'.datos)
            a == ultimo'.alertas
            cuantas == Cardinality({k \in 1..3 : v[k]})
        IN /\ Len(a) = cuantas
           /\ \A k \in 1..3 :
                  v[k] <=> \E i \in 1..Len(a) : a[i] = NombresDeAlerta[k]
           /\ \A i, j \in 1..Len(a) :
                  i < j =>
                      \E k, m \in 1..3 :
                          /\ k < m
                          /\ a[i] = NombresDeAlerta[k]
                          /\ a[j] = NombresDeAlerta[m]
           /\ (cuantas = 0 => a = <<>>)
           /\ config_alertas' = config_alertas
           /\ plantas' = plantas
           /\ historial' = historial
           /\ ultima_alerta' = ultima_alerta
    ]_vars

\* The evaluator has run under limits set by /config_umbrales on a data point
\* whose purity equals the minimum (no violation) and whose pressure and
\* temperature exceed their maxima: the list is pressure, temperature.
C17_Testigo ==
    /\ ultimo.op = "verificar_umbrales"
    /\ "p1" \in DOMAIN config_alertas
    /\ config_alertas["p1"].pureza_minima = 90
    /\ "pureza_pct" \in DOMAIN ultimo.datos
    /\ ultimo.datos.pureza_pct = 90
    /\ ultimo.alertas = <<"Presión alta", "Temperatura alta">>

\* The slice that GET /api/estadisticas?planta_id=p summarises.
Tramo(p) == SelectSeq(historial, LAMBDA m : m.planta_id = p)

\* The handler that ran last is GET /api/estadisticas and it returned the
\* statistics of a slice that is not empty.
TrasEstadisticas ==
    /\ ultimo.op = "estadisticas"
    /\ ultimo.status = 200
    /\ Tramo(ultimo.planta_id) # <<>>

\* C18 as stated: the statistics of an empty slice are a result with count 0
\* for every metric, 0 for both KPIs and 0 alarms, returned without raising.
C18_ResultadoEnCero ==
    (ultimo.op = "estadisticas" /\ Tramo(ultimo.planta_id) = <<>>) =>
        /\ ultimo.status = 200
        /\ {"pureza", "flujo", "presion", "temperatura", "alarmas", "kpis"}
               \subseteq DOMAIN ultimo.stats
        /\ \A k \in {"pureza", "flujo", "presion", "temperatura"} :
               ultimo.stats[k].count = 0
        /\ ultimo.stats.kpis.disponibilidad = 0
        /\ ultimo.stats.kpis.cumplimiento_pureza = 0
        /\ ultimo.stats.alarmas.total = 0

\* C18 as amended: the statistics of an empty slice are the empty mapping,
\* with no entry for any metric, KPI or alarm count, returned without raising.
C18_ResultadoVacio ==
    (ultimo.op = "estadisticas" /\ Tramo(ultimo.planta_id) = <<>>) =>
        /\ ultimo.status = 200
        /\ DOMAIN ultimo.stats = {}

\* The statistics of a plant without samples have been asked for.
C18_Testigo ==
    /\ ultimo.op = "estadisticas"
    /\ historial = <<>>
    /\ ultimo.status = 200
    /\ ultimo.stats = Vacio

\* The metrics of the statistics and their historial columns.
Metricas ==
    {<<"pureza", "pureza_pct">>, <<"flujo", "flujo_nm3h">>,
     <<"presion", "presion_bar">>, <<"temperatura", "temperatura_c">>}

\* The non-null values of a column of the slice.
NoNulos(p, columna) ==
    SelectSeq(Columna(Tramo(p), columna), LAMBDA v : v # None)

\* r hundredths is the square root, rounded to two decimals, of the sum of
\* the squared deviations from the mean of v divided by Len(v) - 1.
EsDesviacionMuestral(r, v) ==
    LET n == Len(v)
        num == n * Suma(Cuadrados(v)) - Suma(v) * Suma(v)
        den == n * (n - 1)
    IN /\ (r = 0 \/ (2 * r - 1) * (2 * r - 1) * den <= 40000 * num)
       /\ (2 * r + 1) * (2 * r + 1) * den > 40000 * num

\* a hundredths is num / den rounded to two decimals.
EsCociente(a, num, den) ==
    LET d == a * den - 100 * num
    IN 2 * (IF d < 0 THEN -d ELSE d) <= den

\* C19: for each metric the statistics report the number of non-null values,
\* a standard deviation of 0 when that number is at most 1 and otherwise the
\* sample standard deviation (divisor n - 1), and the mean of those values.
C19_DesviacionMuestral ==
    TrasEstadisticas =>
        \A k \in Metricas :
            LET v == NoNulos(ultimo.planta_id, k[2])
                e == ultimo.stats[k[1]]
            IN /\ e.count = Len(v)
               /\ (Len(v) <= 1 => e.std = 0)
               /\ (Len(v) >= 2 => EsDesviacionMuestral(e.std, v))
               /\ (Len(v) >= 1 => EsCociente(e.avg, Suma(v), Len(v)))

\* The slice has the purities 90 and 95 and one non-null flow: the purity has
\* mean 92.5 and standard deviation 3.54 (variance 12.5) and the flow has
\* standard deviation 0.
C19_Testigo ==
    /\ TrasEstadisticas
    /\ Columna(historial, "pureza_pct") = <<90, 95>>
    /\ ultimo.stats.pureza.avg = 9250
    /\ ultimo.stats.pureza.std = 354
    /\ ultimo.stats.flujo.count = 1
    /\ ultimo.stats.flujo.std = 0

\* C20: the purity compliance is the percentage of the samples of the slice
\* whose purity is at least 93, whatever limits config_alertas holds for the
\* plant.
C20_CumplimientoConstante93 ==
    TrasEstadisticas =>
        LET t == Tramo(ultimo.planta_id)
            aceptables == Cardinality({i \in 1..Len(t) : t[i].pureza_pct >= 93})
        IN EsCociente(ultimo.stats.kpis.cumplimiento_pureza,
                      100 * aceptables, Len(t))

\* The plant's configured minimum purity is 90 and the slice holds a sample of
\* purity 90 and one of 95: the compliance is 50 %.
C20_Testigo ==
    /\ TrasEstadisticas
    /\ "p1" \in DOMAIN config_alertas
    /\ config_alertas["p1"].pureza_minima = 90
    /\ Columna(historial, "pureza_pct") = <<90, 95>>
    /\ ultimo.stats.kpis.cumplimiento_pureza = 5000

\* The identifiers of the rows of plantas whose activa is 1.
Activas == {p \in DOMAIN plantas : plantas[p].activa = 1}

\* C21: in the fleet aggregate the total is the number of active plants, the
\* Production, Maintenance and alarm counts are the numbers of active plants
\* in that mode or with the alarm flag set, so Production + Maintenance is at
\* most the total, the flow is the sum over the active plants, and with no
\* active plant every count, the mean purity and the flow sum are 0.
C21_AgregadoSoloActivas ==
    LET g == obtener_estadisticas_globales(plantas)
    IN /\ g.total_plantas = Cardinality(Activas)
       /\ g.plantas_operando =
              Cardinality({p \in Activas : plantas[p].modo = "Producción"})
       /\ g.plantas_mantenimiento =
              Cardinality({p \in Activas : plantas[p].modo = "Mantenimiento"})
       /\ g.plantas_alarma = Cardinality({p \in Activas : plantas[p].alarma = 1})
       /\ g.plantas_operando + g.plantas_mantenimiento <= g.total_plantas
       /\ \A p \in Ids :
              Activas = {p} => g.flujo_total = 100 * plantas[p].flujo_nm3h
       /\ (Activas = Ids =>
              g.flujo_total =
                  100 * (plantas["p1"].flujo_nm3h + plantas["p2"].flujo_nm3h))
       /\ (Activas = {} =>
              /\ g.total_plantas = 0
              /\ g.plantas_operando = 0
              /\ g.plantas_mantenimiento = 0
              /\ g.plantas_alarma = 0
              /\ g.pureza_promedio = 0
              /\ g.flujo_total = 0)

\* p1 has been deactivated with flow 10 in its row while p2 is active and in
\* alarm: the aggregate counts one plant, in alarm, with flow 0.
C21_Testigo ==
    /\ DOMAIN plantas = Ids
    /\ plantas["p1"].activa = 0
    /\ plantas["p1"].flujo_nm3h = 10
    /\ plantas["p1"].modo = "Producción"
    /\ plantas["p2"].activa = 1
    /\ obtener_estadisticas_globales(plantas).total_plantas = 1
    /\ obtener_estadisticas_globales(plantas).plantas_alarma = 1
    /\ obtener_estadisticas_globales(plantas).flujo_total = 0

\* The identifiers that name no plant: the key is absent, null or empty.
SinIdentificador == {SinId, IdNulo, ""}

\* C22 as stated: a POST /api/datos whose body has no plant identifier (the
\* key is absent, null or the empty string) is answered 400 and leaves plantas
\* and historial as they were.
C22_SinIdentificadorSeRechaza ==
    [][(/\ reloj' = reloj
        /\ ultimo'.op = "recibir_datos"
        /\ ultimo'.planta_id \in SinIdentificador)
       => /\ ultimo'.status = 400
          /\ plantas' = plantas
          /\ historial' = historial
    ]_vars

\* The row of plantas shows the values that the sample m has.
FilaRefleja(fila, m) ==
    /\ fila.ultima_actualizacion = m.timestamp
    /\ fila.presion_bar = m.presion_bar
    /\ fila.temperatura_c = m.temperatura_c
    /\ fila.pureza_pct = m.pureza_pct
    /\ fila.flujo_nm3h = m.flujo_nm3h
    /\ fila.alarma = m.alarma
    /\ fila.mensaje_alarma = m.mensaje_alarma

\* C24: a call of actualizar_planta_db leaves the committed tables either
\* with both the plant's row written and the sample appended, or exactly as
\* they were; in the second case the request is answered with an error and
\* not with 200; and a request that made no call touches neither table.
C24_FilaYMuestraJuntas ==
    [][IF llamadas' # llamadas
       THEN LET p == llamadas'[Len(llamadas')].planta_id
            IN \/ /\ Len(historial') = Len(historial) + 1
                  /\ SubSeq(historial', 1, Len(historial)) = historial
                  /\ historial'[Len(historial')].planta_id = p
                  /\ p \in DOMAIN plantas'
                  /\ FilaRefleja(plantas'[p], historial'[Len(historial')])
                  /\ \A q \in DOMAIN plantas' \ {p} :
                         q \in DOMAIN plantas /\ plantas'[q] = plantas[q]
               \/ /\ historial' = historial
                  /\ plantas' = plantas
                  /\ ultimo'.status = 500
       ELSE plantas' = plantas /\ historial' = historial
    ]_vars

\* A call for the null identifier has failed at its second statement, after
\* calls that were committed: the request was answered 500, the tables hold a
\* sample for each earlier call and no row for the null identifier.
C24_Testigo ==
    /\ ultimo.op = "recibir_datos"
    /\ ultimo.planta_id = IdNulo
    /\ ultimo.status = 500
    /\ Len(llamadas) = 3
    /\ Len(historial) = 2
    /\ DOMAIN plantas = {"p1", ""}

\* C23 as stated: when main() has just run, ultima_alerta is empty; and a
\* triggering event (alarm flag true or a threshold violation) ingested for a
\* plant that has no entry in ultima_alerta, so that no burst was sent for it
\* since the process started, is sent when the plant's alerts are enabled,
\* whatever the alarm column of the plant's row held.
C23_PrimerEventoTrasReinicio ==
    /\ (ultimo.op = "main" => ultima_alerta = Vacio)
    /\ (/\ EventoDisparador
        /\ AlertasActivas(ultimo.planta_id)
        /\ ultimo.ultima_previa = <<>>
        => ultimo.podia /\ ultimo.enviado)

\* Both threads have answered requests for the same plant.
DosPeticionesAtendidas ==
    /\ ultimo.op = "hilos"
    /\ \A h \in Hilos : ultimo.hilos[h].pc = "fin"
    /\ ultimo.hilos[1].planta_id = ultimo.hilos[2].planta_id

\* C25 as stated: when two requests for the same plant have been served
\* concurrently, both were answered 200, historial has gained one sample for
\* each, and the tables are the ones that the calls leave when they run one
\* after the other in the order of their commits.
C25_ComoEnSerie ==
    DosPeticionesAtendidas =>
        /\ \A h \in Hilos : ultimo.hilos[h].status = 200
        /\ Len(historial) = Len(llamadas)
        /\ plantas = EnSerie(llamadas).plantas
        /\ historial = EnSerie(llamadas).historial

\* C26 as stated: two requests served concurrently for the same plant never
\* both send a burst within one cool-down interval of the plant.
C26_UnaRafagaConcurrente ==
    ultimo.op = "hilos" =>
        \A a, b \in Hilos :
            (/\ a # b
             /\ ultimo.hilos[a].enviado
             /\ ultimo.hilos[b].enviado
             /\ ultimo.hilos[a].planta_id = ultimo.hilos[b].planta_id
             /\ ultimo.hilos[a].ahora <= ultimo.hilos[b].ahora)
            => ultimo.hilos[b].ahora - ultimo.hilos[a].ahora >=
                   obtener_config(config_alertas, ultimo.hilos[a].planta_id)
                       .intervalo_alerta_min

\* C27 as stated: a request that has started a burst is answered, after
\* send_message has been tried for every recipient, whatever the sends do.
C27_LaIngestaTermina ==
    (ultimo.pc = "enviando") ~>
        (ultimo.pc = "respondida" /\ Len(ultimo.entregas) = Len(Todos))

\* C28 as stated: the statistics of a slice that is not empty are returned
\* whatever null values its samples hold; for each metric the count is the
\* number of non-null values and the minimum, maximum and mean are those of
\* the non-null values; and the purity compliance is part of the result.
C28_NulosNoRompen ==
    (ultimo.op = "estadisticas" /\ Tramo(ultimo.planta_id) # <<>>) =>
        /\ ultimo.status = 200
        /\ "kpis" \in DOMAIN ultimo.stats
        /\ "cumplimiento_pureza" \in DOMAIN ultimo.stats.kpis
        /\ \A k \in Metricas :
               LET v == NoNulos(ultimo.planta_id, k[2])
                   e == ultimo.stats[k[1]]
               IN /\ e.count = Len(v)
                  /\ (Len(v) >= 1 =>
                         /\ e.min = 100 * Minimo(v)
                         /\ e.max = 100 * Maximo(v)
                         /\ EsCociente(e.avg, Suma(v), Len(v)))

\* The number of rows that historial holds for plant p.
Muestras(hi, p) == Cardinality({i \in 1..Len(hi) : hi[i].planta_id = p})

\* C29: a plant whose row has activa = 0 keeps it whatever handler runs next:
\* it stays out of the listing of obtener_plantas_db, a registration for its
\* identifier is answered "already exists", and an ingest for it updates the
\* row, without making it active, and adds one sample to its history.
C29_LaBajaEsDefinitiva ==
    [][\A p \in DOMAIN plantas :
          plantas[p].activa = 0 =>
              /\ p \in DOMAIN plantas'
              /\ plantas'[p].activa = 0
              /\ p \notin DOMAIN obtener_plantas_db(plantas')
              /\ (ultimo'.op = "nueva_planta" /\ ultimo'.planta_id = p
                     => ultimo'.status = 409)
              /\ Muestras(historial', p) >= Muestras(historial, p)
              /\ (llamadas' # llamadas /\ llamadas'[Len(llamadas')].planta_id = p
                     => /\ ultimo'.status = 200
                        /\ Muestras(historial', p) = Muestras(historial, p) + 1
                        /\ FilaRefleja(plantas'[p], historial'[Len(historial')]))
    ]_vars

\* An ingest for p1 has just been accepted and stored while p1 was
\* deactivated: its row shows the new values, it has two samples or more and
\* it is still inactive.
C29_Testigo ==
    /\ TrasIngesta
    /\ ultimo.planta_id = "p1"
    /\ ultimo.status = 200
    /\ ultimo.habia
    /\ ~ultimo.activa_antes
    /\ plantas["p1"].activa = 0
    /\ Muestras(historial, "p1") >= 2
    /\ FilaRefleja(plantas["p1"], historial[Len(historial)])

\* C30 as stated: the mode toggle sets the plant's mode to Maintenance when
\* it was Production and to Production otherwise, sets the time of the last
\* update, and leaves every other column of the plant's row as it was, the
\* pressure, temperature, purity, flow, alarm flag and alarm message among
\* them.
C30_CambioDeModoSoloModo ==
    [][(llamadas' # llamadas /\ ultimo'.op = "modo") =>
        LET p == ultimo'.planta_id
            antes == plantas[p]
            despues == plantas'[p]
        IN /\ despues.modo = (IF antes.modo = "Producción" THEN "Mantenimiento"
                              ELSE "Producción")
           /\ despues.ultima_actualizacion = isoformat(FechaHora(reloj))
           /\ despues = [antes EXCEPT
                             !.modo = despues.modo,
                             !.ultima_actualizacion = despues.ultima_actualizacion]
    ]_vars

====
